---- MODULE Spec2Model ----
(***************************************************************************)
(* Model of the ghz request driver (Requester.Run / Stop / Finish, the     *)
(* worker pool of runWorkers / runWorker, the per-call orchestration of    *)
(* makeRequest and its four streaming modes) together with the result      *)
(* channel, the stats handler that feeds it and the reporter that drains   *)
(* it.                                                                     *)
(*                                                                         *)
(* The transport (grpc) is an environment: every blocking transport        *)
(* operation is one step whose outcome (message, end-of-stream, error) is  *)
(* chosen nondeterministically.  A client stream that the code abandons    *)
(* without reading its status is finished by the transport asynchronously  *)
(* (context cancellation / connection close), which is when its stats End  *)
(* event is delivered.                                                     *)
(***************************************************************************)
EXTENDS Integers, Sequences, FiniteSets, TLC

\* ---------------------------------------------------------------- bounds
MaxN == 3
MaxC == 2
MaxMsgs == 1
MaxRecv == 1
CapExtra == 1
CapSlack == 1

\* ------------------------------------------------------ program constants
maxResult == 1000000
TickMicros == 1000000

\* qps values tried: unthrottled, one tick per microsecond, and a value
\* above 1e6 for which the integer period 1e6/qps is 0
QpsValues == {0, 1000000, 2000000}

Statuses == {"OK", "Unavailable"}

Workers == 1..MaxC

VARIABLES
    cfgFile,         \* config file as decoded by json.Unmarshal: <<>> or <<c>>
    parsed,          \* outcome of parseConfig: <<>> before the call
    config,          \* Options: [N, C, QPS]
    mtd,             \* method descriptor: [client, server] streaming flags
    inputLen,        \* len(streamInput) built by createPayloads (empty or full)
    runPc,           \* position of Run()/Finish()
    ccOpen,          \* transport connection is open
    report,          \* *Report returned by Run: <<>> is nil, else <<the report>>
    results,         \* buffered content of the b.results channel
    resultsClosed,   \* b.results has been closed
    stopCh,          \* number of sentinels buffered in b.stopCh
    reqCounter,      \* b.reqCounter
    wpc,             \* position of each worker goroutine
    wi,              \* loop variable i of runWorker
    counter,         \* loop variable counter of the stream senders
    recvd,           \* messages received so far on the current stream
    tracing,         \* history is kept of the transport operations
    ops,             \* history: transport operations of each worker's last call
    throttle,        \* ticks buffered in each worker's throttle channel
    repPc,           \* position of Reporter.Run
    totalCount,      \* reporter: count
    details,         \* reporter: details list
    statusCodeDist,  \* reporter: status -> count
    doneCh,          \* reporter.done holds a value
    stopPc,          \* position of Stop()
    stopI,           \* loop variable i of Stop()
    pendingEnd,      \* abandoned streams whose stats End is still to come
    panicked,        \* the process died with a runtime panic
    ordinals,        \* history: call ordinals handed out
    dropped,         \* history: calls dropped before any RPC was issued
    emitted,         \* history: CallResults put on the result channel
    startedInPeriod, \* history: calls started since the last tick
    lifecycle,       \* history: driver lifecycle events in order
    closeCount,      \* history: number of close(b.results) executed
    drained          \* history: workers that received a stop sentinel

cfgVars == <<cfgFile, parsed, config, mtd, inputLen, tracing>>
runVars == <<runPc, ccOpen, report, lifecycle, closeCount>>
chanVars == <<results, resultsClosed, emitted, panicked>>
workerVars == <<wpc, wi, counter, recvd, ops, reqCounter, ordinals, dropped,
                startedInPeriod, pendingEnd, drained>>
repVars == <<repPc, totalCount, details, statusCodeDist, doneCh>>
stopVars == <<stopPc, stopI>>

vars == <<cfgFile, parsed, config, mtd, inputLen, runPc, ccOpen, report, results,
          resultsClosed, stopCh, reqCounter, wpc, wi, counter, recvd,
          tracing, ops,
          throttle, repPc, totalCount, details, statusCodeDist, doneCh,
          stopPc, stopI, pendingEnd, panicked, ordinals, dropped, emitted,
          startedInPeriod, lifecycle, closeCount, drained>>

\* ---------------------------------------------------------------- helpers

min(a, b) == IF a < b THEN a ELSE b

\* faulty variant: a buffer one slot larger
ResultCapOffByOne == min(config.C * 1000, maxResult) + 1
\* capacity of the result channel
ResultCap == min(config.C * 1000, maxResult)

\* faulty variant: a stop channel one slot short
StopCapShort == config.C - 1
\* capacity of the stop channel
StopCap == config.C

\* faulty variant: the share rounded up
PerWorkerCeil(cfg) == (cfg.N + cfg.C - 1) \div cfg.C
\* b.config.N / b.config.C
PerWorker(cfg) == cfg.N \div cfg.C

\* 1e6 / b.config.QPS, in microseconds
Period(cfg) == TickMicros \div cfg.QPS

\* time.Tick returns a nil channel when the period is not positive
HasTicker(cfg) == cfg.QPS > 0 /\ Period(cfg) > 0

\* faulty variant: an increment that is lost once the counter is non-zero
AddInt64Lost(c) == IF c = 0 THEN 1 ELSE c
\* atomic.AddInt64(&b.reqCounter, 1)
AddInt64(c) == c + 1

\* faulty variant: the loop runs once too often
LaunchedOneMore(cfg) == 1..min(cfg.C + 1, MaxC)
\* the goroutines started by the loop of runWorkers
Launched(cfg) == 1..cfg.C

Active == Launched(config)

InCall(w) == wpc[w] \in {"invoke", "csLoop", "ssLoop", "bidiSend", "bidiRecv"}

\* calls started by makeRequest that have not returned yet
InFlight == Cardinality({w \in Workers : InCall(w)})

RECURSIVE SumDist(_, _)
SumDist(f, S) ==
    IF S = {} THEN 0
    ELSE LET s == CHOOSE x \in S : TRUE IN f[s] + SumDist(f, S \ {s})

\* ------------------------------------------------------- config file

\* strings are sequences of one-character strings
DotProto == <<".", "p", "r", "o", "t", "o">>

IsSpace(ch) == ch \in {" ", "\t", "\n", "\r"}

RECURSIVE TrimLeft(_)
TrimLeft(s) ==
    IF s # <<>> /\ IsSpace(Head(s)) THEN TrimLeft(Tail(s)) ELSE s

RECURSIVE TrimRight(_)
TrimRight(s) ==
    IF s # <<>> /\ IsSpace(s[Len(s)])
    THEN TrimRight(SubSeq(s, 1, Len(s) - 1))
    ELSE s

\* strings.TrimSpace
TrimSpace(s) == TrimRight(TrimLeft(s))

\* filepath.Ext: the suffix beginning at the final dot in the final element
\* of the path; empty if there is no dot
RECURSIVE ExtFrom(_, _)
ExtFrom(path, i) ==
    IF i < 1 \/ path[i] = "/" THEN <<>>
    ELSE IF path[i] = "." THEN SubSeq(path, i, Len(path))
    ELSE ExtFrom(path, i - 1)

Ext(path) == ExtFrom(path, Len(path))

\* requiredString: "is required" when the trimmed string is empty
requiredString(s) == TrimSpace(s) # <<>>

\* minValue: "must be at least min" when v < min
minValue(v, m) == v >= m

\* faulty variant: negative values are replaced by the defaults too
DefaultNonPositive(c, cores) ==
    [c EXCEPT !.N = IF c.N <= 0 THEN 200 ELSE c.N,
              !.C = IF c.C <= 0 THEN 50 ELSE c.C,
              !.CPUs = IF c.CPUs <= 0 THEN cores ELSE c.CPUs]
\* Config.Default
Default(c, cores) ==
    [c EXCEPT !.N = IF c.N = 0 THEN 200 ELSE c.N,
              !.C = IF c.C = 0 THEN 50 ELSE c.C,
              !.CPUs = IF c.CPUs = 0 THEN cores ELSE c.CPUs]

\* Config.Validate: the name of the first failing rule, "" for nil
Validate(c) ==
    IF ~requiredString(c.Proto) THEN "proto"
    ELSE IF Ext(c.Proto) # DotProto THEN "proto extension"
    ELSE IF ~requiredString(c.Call) THEN "call"
    ELSE IF ~minValue(c.N, 0) THEN "n"
    ELSE IF ~minValue(c.C, 0) THEN "c"
    ELSE IF ~minValue(c.QPS, 0) THEN "q"
    ELSE IF ~minValue(c.Timeout, 0) THEN "t"
    ELSE IF ~minValue(c.CPUs, 0) THEN "cpus"
    ELSE IF TrimSpace(c.DataPath) = <<>> /\ ~c.HasData THEN "data"
    ELSE ""

\* values tried for the fields of the config file
ProtoValues ==
    { <<>>, <<" ">>, <<"a">> \o DotProto, DotProto,
      <<"a", ".", "t", "x", "t">>,
      <<"a">> \o DotProto \o <<"/", "b">>,
      <<"a">> \o DotProto \o <<" ">> }
CallValues == { <<>>, <<" ">>, <<"s", ".", "m">> }
HostValues == { <<>>, <<"h">> }
DataPathValues == { <<>>, <<" ">>, <<"d">> }
IntValues == -1..1
\* runtime.GOMAXPROCS(-1)
Cores == {1, 2}

ConfigFiles ==
    [Proto : ProtoValues, Call : CallValues, Host : HostValues,
     N : IntValues, C : IntValues, QPS : IntValues, Timeout : IntValues,
     CPUs : IntValues, HasData : BOOLEAN, DataPath : DataPathValues]

\* ------------------------------------------------------------------ Init

Init ==
    /\ cfgFile = <<>>
    /\ parsed = <<>>
    /\ config \in [N : 0..MaxN, C : 1..MaxC, QPS : QpsValues]
    /\ mtd \in [client : BOOLEAN, server : BOOLEAN]
    /\ inputLen \in (IF mtd.client THEN {0, MaxMsgs} ELSE {1})
    /\ tracing = FALSE
    /\ runPc = "start"
    /\ ccOpen = FALSE
    /\ report = <<>>
    /\ results = <<>>
    /\ resultsClosed = FALSE
    /\ stopCh = 0
    /\ reqCounter = 0
    /\ wpc = [w \in Workers |-> "idle"]
    /\ wi = [w \in Workers |-> 0]
    /\ counter = [w \in Workers |-> 0]
    /\ recvd = [w \in Workers |-> 0]
    /\ ops = [w \in Workers |-> <<>>]
    /\ throttle = [w \in Workers |-> 0]
    /\ repPc = "idle"
    /\ totalCount = 0
    /\ details = <<>>
    /\ statusCodeDist = [s \in Statuses |-> 0]
    /\ doneCh = FALSE
    /\ stopPc = "idle"
    /\ stopI = 0
    /\ pendingEnd = 0
    /\ panicked = FALSE
    /\ ordinals = {}
    /\ dropped = 0
    /\ emitted = 0
    /\ startedInPeriod = 0
    /\ lifecycle = <<>>
    /\ closeCount = 0
    /\ drained = {}

\* ------------------------------------------------- stats handler (emit)

\* statsHandler.HandleRPC on a stats End event: one CallResult is sent on
\* the result channel.  A send on a closed channel panics; a send on a full
\* channel blocks.
Emit(st) ==
    /\ IF resultsClosed
       THEN /\ panicked' = TRUE
            /\ UNCHANGED <<results, emitted>>
       ELSE /\ Len(results) < ResultCap
            /\ results' = Append(results, st)
            /\ emitted' = emitted + 1
            /\ UNCHANGED panicked
    /\ UNCHANGED resultsClosed

\* ------------------------------------------------------ Run() / Finish()

\* b.results = make(...); b.stopCh = make(...); b.start = time.Now()
RunAlloc ==
    /\ ~panicked
    /\ runPc = "start"
    /\ runPc' = "connect"
    /\ results' = <<>>
    /\ stopCh' = 0
    /\ UNCHANGED <<cfgVars, ccOpen, report, lifecycle, closeCount,
                   resultsClosed, emitted, panicked, workerVars, throttle,
                   repVars, stopVars>>

\* faulty variant: the dial error is noted but Run carries on
ConnectIgnoreError ==
    /\ ~panicked
    /\ runPc = "connect"
    /\ \E ok \in BOOLEAN :
         /\ ccOpen' = ok
         /\ runPc' = "newReporter"
         /\ lifecycle' = IF ok THEN lifecycle
                         ELSE Append(lifecycle, "dialError")
    /\ UNCHANGED <<cfgVars, report, closeCount, chanVars, stopCh, workerVars,
                   throttle, repVars, stopVars>>

\* cc, err := b.connect(); if err != nil { return nil, err }
Connect ==
    /\ ~panicked
    /\ runPc = "connect"
    /\ \E ok \in BOOLEAN :
         IF ok
         THEN /\ ccOpen' = TRUE
              /\ runPc' = "newReporter"
              /\ lifecycle' = lifecycle
         ELSE /\ ccOpen' = FALSE
              /\ runPc' = "returned"
              /\ lifecycle' = Append(lifecycle, "dialError")
    /\ UNCHANGED <<cfgVars, report, closeCount, chanVars, stopCh, workerVars,
                   throttle, repVars, stopVars>>

\* b.reporter = newReporter(...); go b.reporter.Run()
StartReporter ==
    /\ ~panicked
    /\ runPc = "newReporter"
    /\ runPc' = "runWorkers"
    /\ repPc' = "running"
    /\ UNCHANGED <<cfgVars, ccOpen, report, lifecycle, closeCount, chanVars,
                   stopCh, workerVars, throttle, totalCount, details,
                   statusCodeDist, doneCh, stopVars>>

\* runWorkers: wg.Add(C) and the loop that starts the C goroutines; each
\* goroutine enters runWorker and creates its own throttle channel
LaunchWorkers ==
    /\ ~panicked
    /\ runPc = "runWorkers"
    /\ runPc' = "wgWait"
    /\ wpc' = [w \in Workers |->
                 IF w \in Launched(config) THEN "loop" ELSE "idle"]
    /\ UNCHANGED <<cfgVars, ccOpen, report, lifecycle, closeCount, chanVars,
                   stopCh, wi, counter, recvd, ops, reqCounter, ordinals,
                   dropped, startedInPeriod, pendingEnd, drained,
                   throttle, repVars, stopVars>>

\* wg.Wait() returns when every worker has called wg.Done()
WgCounter == config.C - Cardinality({w \in Workers : wpc[w] = "done"})

\* faulty variant: runWorkers returns without waiting for the workers
WgWaitNoWait ==
    /\ ~panicked
    /\ runPc = "wgWait"
    /\ runPc' = "Finish"
    /\ lifecycle' = Append(lifecycle, "workersDone")
    /\ UNCHANGED <<cfgVars, ccOpen, report, closeCount, chanVars, stopCh,
                   workerVars, throttle, repVars, stopVars>>

\* wg.Wait(), then runWorkers returns to Run
WgWait ==
    /\ ~panicked
    /\ runPc = "wgWait"
    /\ WgCounter <= 0
    /\ runPc' = "Finish"
    /\ lifecycle' = Append(lifecycle, "workersDone")
    /\ UNCHANGED <<cfgVars, ccOpen, report, closeCount, chanVars, stopCh,
                   workerVars, throttle, repVars, stopVars>>

\* Finish: close(b.results); closing a closed channel panics
FinishClose ==
    /\ ~panicked
    /\ runPc = "Finish"
    /\ IF resultsClosed
       THEN /\ panicked' = TRUE
            /\ UNCHANGED <<runPc, resultsClosed, closeCount, lifecycle>>
       ELSE /\ resultsClosed' = TRUE
            /\ closeCount' = closeCount + 1
            /\ runPc' = "waitDone"
            /\ lifecycle' = Append(lifecycle, "sealed")
            /\ UNCHANGED panicked
    /\ UNCHANGED <<cfgVars, ccOpen, report, results, emitted, stopCh,
                   workerVars, throttle, repVars, stopVars>>

\* faulty variant: Finish goes on without a value on b.reporter.done
FinishWaitDoneNoWait ==
    /\ ~panicked
    /\ runPc = "waitDone"
    /\ doneCh' = FALSE
    /\ runPc' = "finalize"
    /\ lifecycle' = Append(lifecycle, "doneReceived")
    /\ UNCHANGED <<cfgVars, ccOpen, report, closeCount, chanVars, stopCh,
                   workerVars, throttle, repPc, totalCount, details,
                   statusCodeDist, stopVars>>

\* Finish: <-b.reporter.done
FinishWaitDone ==
    /\ ~panicked
    /\ runPc = "waitDone"
    /\ doneCh
    /\ doneCh' = FALSE
    /\ runPc' = "finalize"
    /\ lifecycle' = Append(lifecycle, "doneReceived")
    /\ UNCHANGED <<cfgVars, ccOpen, report, closeCount, chanVars, stopCh,
                   workerVars, throttle, repPc, totalCount, details,
                   statusCodeDist, stopVars>>

\* Reporter.Finalize: the report is built from the aggregation state
Finalize == [count |-> totalCount, details |-> details,
             statusCodeDist |-> statusCodeDist]

\* Finish: return b.reporter.Finalize(total)
FinishFinalize ==
    /\ ~panicked
    /\ runPc = "finalize"
    /\ report' = <<Finalize>>
    /\ runPc' = "return"
    /\ lifecycle' = Append(lifecycle, "finalized")
    /\ UNCHANGED <<cfgVars, ccOpen, closeCount, chanVars, stopCh, workerVars,
                   throttle, repVars, stopVars>>

\* return report, nil   with the deferred cc.Close()
RunReturn ==
    /\ ~panicked
    /\ runPc = "return"
    /\ ccOpen' = FALSE
    /\ runPc' = "returned"
    /\ lifecycle' = Append(lifecycle, "connReleased")
    /\ UNCHANGED <<cfgVars, report, closeCount, chanVars, stopCh, workerVars,
                   throttle, repVars, stopVars>>

\* ------------------------------------------------------------ runWorker

\* faulty variant: the stopCh case only leaves the select
AfterSentinelContinue == "throttle"

\* case <-b.stopCh: return
AfterSentinel == "done"

\* loop head: i < n, then the select on b.stopCh with its default branch
WorkerLoop(w) ==
    /\ ~panicked
    /\ wpc[w] = "loop"
    /\ IF wi[w] >= PerWorker(config)
       THEN /\ wpc' = [wpc EXCEPT ![w] = "done"]
            /\ UNCHANGED <<stopCh, drained>>
       ELSE IF stopCh > 0
       THEN /\ stopCh' = stopCh - 1
            /\ drained' = drained \cup {w}
            /\ wpc' = [wpc EXCEPT ![w] = AfterSentinel]
       ELSE /\ wpc' = [wpc EXCEPT ![w] = "throttle"]
            /\ UNCHANGED <<stopCh, drained>>
    /\ UNCHANGED <<cfgVars, runVars, chanVars, wi, counter, recvd, ops,
                   reqCounter,
                   ordinals, dropped, startedInPeriod, pendingEnd, throttle,
                   repVars, stopVars>>

\* return from makeRequest (its locals are gone) followed by i++
Ret(w) ==
    /\ wpc' = [wpc EXCEPT ![w] = "loop"]
    /\ wi' = [wi EXCEPT ![w] = wi[w] + 1]
    /\ counter' = [counter EXCEPT ![w] = 0]
    /\ recvd' = [recvd EXCEPT ![w] = 0]

\* history: one transport operation on a stream, its position in the
\* message list (0 when it has none) and its outcome
Op(o, i, r) == [op |-> o, idx |-> i, res |-> r, arg |-> "none"]

\* history: the stub call of the dispatch, the payload handed to it and its
\* outcome
Call(o, a, r) == [op |-> o, idx |-> 0, res |-> r, arg |-> a]

\* history: worker w's call did the operations es, in that order
Log(w, es) == IF tracing THEN [ops EXCEPT ![w] = @ \o es] ELSE ops

\* default branch: <-throttle when QPS > 0, then makeRequest up to the
\* dispatch (ordinal, templates, payloads)
WorkerThrottle(w) ==
    /\ ~panicked
    /\ wpc[w] = "throttle"
    /\ config.QPS > 0 => throttle[w] > 0
    /\ throttle' = [throttle EXCEPT ![w] = 0]
    /\ reqCounter' = AddInt64(reqCounter)
    /\ ordinals' = ordinals \cup {reqCounter'}
    /\ startedInPeriod' = startedInPeriod + 1
    /\ ops' = [ops EXCEPT ![w] = <<>>]
    /\ \E built \in BOOLEAN :
         IF built
         THEN /\ wpc' = [wpc EXCEPT ![w] = "invoke"]
              /\ UNCHANGED <<wi, counter, recvd, dropped>>
         ELSE /\ dropped' = dropped + 1
              /\ Ret(w)
    /\ UNCHANGED <<cfgVars, runVars, chanVars, stopCh, pendingEnd, drained,
                   repVars, stopVars>>

\* ---------------------------------------------------- makeRequest modes

\* faulty variant: the server-streaming test comes first
DispatchServerFirst(m) ==
    IF m.server THEN "InvokeRpcServerStream"
    ELSE IF m.client THEN "InvokeRpcClientStream"
    ELSE "InvokeRpc"
\* the branch of the dispatch at the end of makeRequest
Dispatch(m) ==
    IF m.client /\ m.server THEN "InvokeRpcBidiStream"
    ELSE IF m.client THEN "InvokeRpcClientStream"
    ELSE IF m.server THEN "InvokeRpcServerStream"
    ELSE "InvokeRpc"

\* the payload handed over by that branch
Argument(d) ==
    IF d \in {"InvokeRpcBidiStream", "InvokeRpcClientStream"}
    THEN "streamInput"
    ELSE "input"

\* where the function called by that branch starts
Entry(d) ==
    CASE d = "InvokeRpcBidiStream" -> "bidiSend"
      [] d = "InvokeRpcClientStream" -> "csLoop"
      [] d = "InvokeRpcServerStream" -> "ssLoop"

\* dispatch: the RPC is issued; a unary call blocks until it has ended, a
\* stream is opened (a failed open ends the call at once)
WorkerInvoke(w) ==
    /\ ~panicked
    /\ wpc[w] = "invoke"
    /\ LET d == Dispatch(mtd)
       IN  IF d = "InvokeRpc"
           THEN /\ \E st \in Statuses :
                     /\ Emit(st)
                     /\ ops' = Log(w, <<Call(d, Argument(d), st)>>)
                /\ Ret(w)
           ELSE \E ok \in BOOLEAN :
                  IF ok
                  THEN /\ wpc' = [wpc EXCEPT ![w] = Entry(d)]
                       /\ ops' = Log(w, <<Call(d, Argument(d), "ok")>>)
                       /\ UNCHANGED <<wi, counter, recvd, chanVars>>
                  ELSE /\ Emit("Unavailable")
                       /\ ops' = Log(w, <<Call(d, Argument(d), "err")>>)
                       /\ Ret(w)
    /\ UNCHANGED <<cfgVars, runVars, stopCh, reqCounter, ordinals, dropped,
                   startedInPeriod, pendingEnd, drained, throttle, repVars,
                   stopVars>>

\* faulty variant: the io.EOF branch is missing, the loop just ends
ClientStreamAfterEOFNone(st) == <<>>
\* if err == io.EOF { str.CloseAndReceive(); break }
ClientStreamAfterEOF(st) == <<Op("CloseAndReceive", 0, st)>>

\* one iteration of the loop of makeClientStreamingRequest
WorkerClientStream(w) ==
    /\ ~panicked
    /\ wpc[w] = "csLoop"
    /\ IF inputLen = 0 \/ counter[w] = inputLen
       THEN \* str.CloseAndReceive(); break
            /\ \E st \in Statuses :
                 /\ Emit(st)
                 /\ ops' = Log(w, <<Op("CloseAndReceive", 0, st)>>)
            /\ Ret(w)
       ELSE \E r \in {"ok", "EOF", "err"} :
              CASE r = "ok" ->
                     /\ counter' = [counter EXCEPT ![w] = @ + 1]
                     /\ ops' = Log(w, <<Op("SendMsg", counter[w] + 1, r)>>)
                     /\ UNCHANGED <<wpc, wi, recvd, chanVars>>
                [] r = "EOF" ->
                     \* str.CloseAndReceive(); break
                     /\ \E st \in Statuses :
                          /\ Emit(st)
                          /\ ops' = Log(w, <<Op("SendMsg", counter[w] + 1, r)>>
                                           \o ClientStreamAfterEOF(st))
                     /\ Ret(w)
                [] r = "err" ->
                     \* the failed send has ended the stream; err ends the loop
                     /\ Emit("Unavailable")
                     /\ ops' = Log(w, <<Op("SendMsg", counter[w] + 1, r)>>)
                     /\ Ret(w)
    /\ UNCHANGED <<cfgVars, runVars, stopCh, reqCounter, ordinals, dropped,
                   startedInPeriod, pendingEnd, drained, throttle, repVars,
                   stopVars>>

\* faulty variant: end-of-stream does not leave the receive loop
RecvStepNoBreak(w) ==
    \E r \in {"msg", "EOF", "err"} :
      /\ ops' = Log(w, <<Op("RecvMsg", 0, r)>>)
      /\ CASE r = "msg" ->
                /\ recvd[w] < MaxRecv
                /\ recvd' = [recvd EXCEPT ![w] = @ + 1]
                /\ UNCHANGED <<wpc, wi, counter, chanVars>>
           [] r = "EOF" ->
                /\ Len(ops[w]) <= MaxRecv + 2
                /\ Emit("OK")
                /\ UNCHANGED <<wpc, wi, counter, recvd>>
           [] r = "err" ->
                /\ Emit("Unavailable")
                /\ Ret(w)

\* one iteration of a receive loop (server streaming, second loop of bidi)
RecvStep(w) ==
    \E r \in {"msg", "EOF", "err"} :
      /\ ops' = Log(w, <<Op("RecvMsg", 0, r)>>)
      /\ CASE r = "msg" ->
                /\ recvd[w] < MaxRecv
                /\ recvd' = [recvd EXCEPT ![w] = @ + 1]
                /\ UNCHANGED <<wpc, wi, counter, chanVars>>
           [] r = "EOF" ->
                /\ Emit("OK")
                /\ Ret(w)
           [] r = "err" ->
                /\ Emit("Unavailable")
                /\ Ret(w)

\* one iteration of the loop of makeServerStreamingRequest
WorkerServerStream(w) ==
    /\ ~panicked
    /\ wpc[w] = "ssLoop"
    /\ RecvStep(w)
    /\ UNCHANGED <<cfgVars, runVars, stopCh, reqCounter, ordinals, dropped,
                   startedInPeriod, pendingEnd, drained, throttle, repVars,
                   stopVars>>

\* faulty variant: no half-close before the receive loop
BidiHalfCloseNone == <<>>
\* str.CloseSend(); break
BidiHalfClose == <<Op("CloseSend", 0, "ok")>>

\* one iteration of the first loop of makeBidiRequest
WorkerBidiSend(w) ==
    /\ ~panicked
    /\ wpc[w] = "bidiSend"
    /\ IF inputLen = 0 \/ counter[w] = inputLen
       THEN \* str.CloseSend(); break
            /\ wpc' = [wpc EXCEPT ![w] = "bidiRecv"]
            /\ ops' = Log(w, BidiHalfClose)
            /\ UNCHANGED <<wi, counter, recvd, chanVars, pendingEnd>>
       ELSE \E r \in {"ok", "EOF", "err"} :
              /\ ops' = Log(w, <<Op("SendMsg", counter[w] + 1, r)>>)
              /\ CASE r = "ok" ->
                        /\ counter' = [counter EXCEPT ![w] = @ + 1]
                        /\ UNCHANGED <<wpc, wi, recvd, chanVars, pendingEnd>>
                   [] r = "EOF" ->
                        \* err = io.EOF ends both loops; the status is never
                        \* read, the stream is left to the deferred cancel()
                        /\ pendingEnd' = pendingEnd + 1
                        /\ Ret(w)
                        /\ UNCHANGED chanVars
                   [] r = "err" ->
                        \* the failed send has ended the stream; both loops
                        \* end
                        /\ Emit("Unavailable")
                        /\ Ret(w)
                        /\ UNCHANGED pendingEnd
    /\ UNCHANGED <<cfgVars, runVars, stopCh, reqCounter, ordinals, dropped,
                   startedInPeriod, drained, throttle, repVars, stopVars>>

\* one iteration of the second loop of makeBidiRequest
WorkerBidiRecv(w) ==
    /\ ~panicked
    /\ wpc[w] = "bidiRecv"
    /\ RecvStep(w)
    /\ UNCHANGED <<cfgVars, runVars, stopCh, reqCounter, ordinals, dropped,
                   startedInPeriod, pendingEnd, drained, throttle, repVars,
                   stopVars>>

\* the transport finishes an abandoned stream (cancelled context or closed
\* connection) and delivers its stats End event
AsyncEnd ==
    /\ ~panicked
    /\ pendingEnd > 0
    /\ pendingEnd' = pendingEnd - 1
    /\ Emit("Unavailable")
    /\ UNCHANGED <<cfgVars, runVars, stopCh, wpc, wi, counter, recvd, ops,
                   reqCounter, ordinals, dropped, startedInPeriod, drained,
                   throttle, repVars, stopVars>>

\* --------------------------------------------------------------- Stop()

\* Stop() is called (at most once, any time after the channels exist)
StopCall ==
    /\ ~panicked
    /\ stopPc = "idle"
    /\ runPc # "start"
    /\ stopPc' = "sending"
    /\ stopI' = 0
    /\ UNCHANGED <<cfgVars, runVars, chanVars, stopCh, workerVars, throttle,
                   repVars>>

\* one iteration of the loop of Stop(): b.stopCh <- true, which blocks while
\* the channel is full; Stop() returns after the last iteration
StopSend ==
    /\ ~panicked
    /\ stopPc = "sending"
    /\ stopI < config.C
    /\ stopCh < StopCap
    /\ stopCh' = stopCh + 1
    /\ stopI' = stopI + 1
    /\ stopPc' = IF stopI + 1 < config.C THEN "sending" ELSE "returned"
    /\ UNCHANGED <<cfgVars, runVars, chanVars, workerVars, throttle, repVars>>

\* --------------------------------------------------------------- ticker

\* one tick period elapses: every existing ticker puts a tick in its
\* one-slot channel (a tick is lost when the slot is still full)
Tick ==
    /\ ~panicked
    /\ HasTicker(config)
    /\ \E w \in Workers : wpc[w] # "idle"
    /\ throttle' = [w \in Workers |-> IF wpc[w] # "idle" THEN 1 ELSE throttle[w]]
    /\ startedInPeriod' = 0
    /\ UNCHANGED <<cfgVars, runVars, chanVars, stopCh, wpc, wi, counter,
                   recvd, ops, reqCounter, ordinals, dropped, pendingEnd, drained,
                   repVars, stopVars>>

\* -------------------------------------------------------------- reporter

\* Reporter.Run: one CallResult is taken from the channel and aggregated
ReporterConsume ==
    /\ ~panicked
    /\ repPc = "running"
    /\ results # <<>>
    /\ LET res == Head(results) IN
         /\ results' = Tail(results)
         /\ totalCount' = totalCount + 1
         /\ details' = Append(details, res)
         /\ statusCodeDist' = [statusCodeDist EXCEPT ![res] = @ + 1]
    /\ UNCHANGED <<cfgVars, runVars, resultsClosed, emitted, panicked, stopCh,
                   workerVars, throttle, repPc, doneCh, stopVars>>

\* Reporter.Run: the channel is closed and empty, completion is signalled
ReporterDone ==
    /\ ~panicked
    /\ repPc = "running"
    /\ results = <<>>
    /\ resultsClosed
    /\ repPc' = "finished"
    /\ doneCh' = TRUE
    /\ UNCHANGED <<cfgVars, runVars, chanVars, stopCh, workerVars, throttle,
                   totalCount, details, statusCodeDist, stopVars>>

\* ------------------------------------------------------------------ Next

Driver ==
    \/ RunAlloc
    \/ Connect
    \/ StartReporter
    \/ LaunchWorkers
    \/ WgWait
    \/ FinishClose
    \/ FinishWaitDone
    \/ FinishFinalize
    \/ RunReturn

Worker(w) ==
    \/ WorkerLoop(w)
    \/ WorkerThrottle(w)
    \/ WorkerInvoke(w)
    \/ WorkerClientStream(w)
    \/ WorkerServerStream(w)
    \/ WorkerBidiSend(w)
    \/ WorkerBidiRecv(w)

Next ==
    \/ Driver
    \/ \E w \in Workers : Worker(w)
    \/ AsyncEnd
    \/ StopCall
    \/ StopSend
    \/ Tick
    \/ ReporterConsume
    \/ ReporterDone

Spec == Init /\ [][Next]_vars

\* Scheduling: every goroutine that can take a step eventually takes one,
\* every transport operation eventually returns, tickers keep ticking.
\* Nothing forces Stop() to be called.
Fairness ==
    /\ WF_vars(Driver)
    /\ \A w \in Workers : WF_vars(Worker(w))
    /\ WF_vars(AsyncEnd)
    /\ WF_vars(StopSend)
    /\ WF_vars(Tick)
    /\ WF_vars(ReporterConsume)
    /\ WF_vars(ReporterDone)

FairSpec == Spec /\ Fairness

TypeOK ==
    /\ runPc \in {"start", "connect", "newReporter", "runWorkers", "wgWait",
                  "Finish", "waitDone", "finalize", "return", "returned"}
    /\ \A w \in Workers :
         wpc[w] \in {"idle", "loop", "throttle", "invoke", "csLoop",
                     "ssLoop", "bidiSend", "bidiRecv", "done"}
    /\ stopCh \in 0..MaxC
    /\ Len(results) <= ResultCap

\* ---------------------------------------------------------------- claims

IsPrefix(s, t) == Len(s) <= Len(t) /\ s = SubSeq(t, 1, Len(s))

\* every launched worker has returned from runWorker
AllWorkersDone == \A w \in Workers : wpc[w] \in {"idle", "done"}

\* Run() has returned a report
RunSucceeded == runPc = "returned" /\ report # <<>>

\* C1: the calls attempted never exceed C * floor(N / C), which never exceeds
\* N; and when Stop() was never called and the workers have finished, every
\* worker has performed exactly floor(N / C) iterations and exactly
\* C * floor(N / C) calls were attempted (the N mod C others never are).
C1_WorkerShare ==
    /\ reqCounter <= config.C * (config.N \div config.C)
    /\ config.C * (config.N \div config.C) <= config.N
    /\ (runPc \in {"Finish", "waitDone", "finalize", "return"} \/ RunSucceeded)
        /\ stopPc = "idle"
         => /\ \A w \in 1..config.C : wi[w] = config.N \div config.C
            /\ reqCounter = config.C * (config.N \div config.C)

\* C1 witness: a finished run without Stop() whose N is no multiple of C and
\* in which calls were made
C1_Witness ==
    /\ RunSucceeded
    /\ stopPc = "idle"
    /\ config.N % config.C # 0
    /\ reqCounter = config.N - (config.N % config.C)
    /\ reqCounter > 0

\* C2 as stated: without drops and without Stop(), the ordinals handed out
\* over the whole run are exactly 1..N.
C2_OrdinalsAreOneToN ==
    (RunSucceeded /\ stopPc = "idle" /\ dropped = 0)
        => ordinals = 1..config.N

\* C2 amended: without drops and without Stop(), the ordinals handed out over
\* the whole run are exactly 1..C*floor(N/C); that is 1..N only when C
\* divides N.
C2_OrdinalsAreOneToShare ==
    (RunSucceeded /\ stopPc = "idle" /\ dropped = 0)
        => /\ ordinals = 1..(config.C * (config.N \div config.C))
           /\ (config.N % config.C = 0 => ordinals = 1..config.N)

\* C2 witness: such a run with two workers, a remainder, and ordinals 1..2
C2_Witness ==
    /\ RunSucceeded
    /\ stopPc = "idle"
    /\ dropped = 0
    /\ config.C = 2
    /\ config.N = 3
    /\ ordinals = {1, 2}

\* C3 as stated: with qps > 0, at most one call is started in any one tick
\* period, over all workers together.
C3_OneStartPerPeriod ==
    HasTicker(config) => startedInPeriod <= 1

\* C4: the number of calls in flight is at most C.
C4_InFlightAtMostC ==
    InFlight <= config.C

\* C4 witness: C >= 2 calls are in flight at once
C4_Witness ==
    /\ config.C >= 2
    /\ InFlight = config.C

\* C5 as stated (untimed form): once Stop() has returned, no worker starts a
\* new call.
C5_NoStartAfterStop ==
    [][stopPc = "returned" => reqCounter' = reqCounter]_vars

\* C6: a step of Stop() changes nothing but the stop channel (no call in
\* flight is touched, no result is added or removed), and a worker that has
\* received a sentinel has returned and never starts a call again.
C6_StopIsCooperative ==
    [][/\ (stopPc' # stopPc \/ stopI' # stopI)
            => UNCHANGED <<wpc, wi, counter, recvd, results, resultsClosed,
                           emitted, pendingEnd, reqCounter, panicked>>
       /\ \A w \in drained : wpc[w] = "done" /\ wpc'[w] = "done"]_vars

\* C6 witness: Stop() has returned while one worker was in a call and another
\* had already taken its sentinel
C6_Witness ==
    /\ stopPc = "returned"
    /\ \E w \in Workers : InCall(w)
    /\ \E w \in drained : wpc[w] = "done"

\* C7: after a successful dial the driver's events happen in the order
\* workers finished, channel sealed, done received, report finalized,
\* connection released; the channel is closed at most once, only when every
\* worker has returned; done is received only after the reporter signalled
\* it; the report exists only after done was received; the connection is
\* released only after the report exists.
LifecycleOrder ==
    <<"workersDone", "sealed", "doneReceived", "finalized", "connReleased">>

Happened(e) == \E i \in 1..Len(lifecycle) : lifecycle[i] = e

C7_LifecycleOrdering ==
    /\ IsPrefix(lifecycle, LifecycleOrder) \/ lifecycle = <<"dialError">>
    /\ closeCount <= 1
    /\ resultsClosed <=> Happened("sealed")
    /\ resultsClosed => AllWorkersDone
    /\ Happened("doneReceived") => repPc = "finished" /\ resultsClosed
    /\ report # <<>> <=> Happened("finalized")
    /\ report # <<>> => Happened("doneReceived")
    /\ (Happened("workersDone") /\ ~Happened("connReleased")) => ccOpen
    /\ Happened("connReleased") => ~ccOpen /\ report # <<>>

\* C7 witness: a run went through all five events
C7_Witness ==
    /\ lifecycle = LifecycleOrder
    /\ emitted > 0

\* C8 as stated: when the result channel is closed no call is in flight and
\* no stats End event is still to come, and no send ever hits the closed
\* channel.
C8_NoSendAfterSeal ==
    /\ resultsClosed => (InFlight = 0 /\ pendingEnd = 0)
    /\ ~panicked

\* C9 as stated: done is signalled only when the channel is sealed and
\* everything sent before the seal has been consumed, and once the channel
\* is sealed Run() eventually returns.
C9_AggregatorTermination ==
    /\ [](repPc = "finished"
            => (resultsClosed /\ results = <<>> /\ totalCount = emitted))
    /\ (resultsClosed ~> runPc = "returned")

\* C10: every CallResult put on the channel is either still buffered or has
\* been consumed exactly once, and the report of a finished run has
\* count = len(details) = sum of statusCodeDist = number of results emitted.
C10_CountConservation ==
    /\ ~panicked => totalCount + Len(results) = emitted
    /\ Len(details) = totalCount
    /\ report # <<>>
         => /\ report[1].count = Len(report[1].details)
            /\ report[1].count = SumDist(report[1].statusCodeDist, Statuses)
            /\ report[1].count = emitted

\* C10 witness: a report over at least two results with both statuses
C10_Witness ==
    /\ RunSucceeded
    /\ report[1].count >= 2
    /\ \A s \in Statuses : report[1].statusCodeDist[s] > 0

\* ------------------------------------------------ result channel capacity

\* the state right after construction, for a given configuration
Constructed ==
    /\ runPc = "start"
    /\ ccOpen = FALSE
    /\ report = <<>>
    /\ results = <<>>
    /\ resultsClosed = FALSE
    /\ stopCh = 0
    /\ reqCounter = 0
    /\ wpc = [w \in Workers |-> "idle"]
    /\ wi = [w \in Workers |-> 0]
    /\ counter = [w \in Workers |-> 0]
    /\ recvd = [w \in Workers |-> 0]
    /\ ops = [w \in Workers |-> <<>>]
    /\ throttle = [w \in Workers |-> 0]
    /\ repPc = "idle"
    /\ totalCount = 0
    /\ details = <<>>
    /\ statusCodeDist = [s \in Statuses |-> 0]
    /\ doneCh = FALSE
    /\ stopPc = "idle"
    /\ stopI = 0
    /\ pendingEnd = 0
    /\ panicked = FALSE
    /\ ordinals = {}
    /\ dropped = 0
    /\ emitted = 0
    /\ startedInPeriod = 0
    /\ lifecycle = <<>>
    /\ closeCount = 0
    /\ drained = {}

\* an unthrottled unary run of one worker that makes CapExtra more calls
\* than the result channel holds
CapInit ==
    /\ cfgFile = <<>>
    /\ parsed = <<>>
    /\ config = [N |-> min(1000, maxResult) + CapExtra, C |-> 1, QPS |-> 0]
    /\ mtd = [client |-> FALSE, server |-> FALSE]
    /\ inputLen = 1
    /\ tracing = FALSE
    /\ Constructed

\* The program's steps under a slow reporter and a server that answers every
\* call with OK: the reporter goroutine is scheduled only when the buffer is
\* within CapSlack entries of its capacity or the channel has been closed;
\* every call is built without error; Stop() is not called.
CapNext ==
    /\ \/ Driver
       \/ \E w \in Workers :
             WorkerLoop(w) \/ WorkerThrottle(w) \/ WorkerInvoke(w)
       \/ ReporterConsume
       \/ ReporterDone
    /\ dropped' = dropped
    /\ results' # <<>> => results'[Len(results')] = "OK"
    /\ totalCount' # totalCount
         => (Len(results) + CapSlack >= ResultCap \/ resultsClosed)

CapSpec == CapInit /\ [][CapNext]_vars

\* C11: the result channel holds at most min(C*1000, 1000000) entries; a
\* sender that finds it full waits, so that every call that returned has put
\* exactly one CallResult on the channel and every CallResult put on the
\* channel is still buffered or was consumed: none is dropped or overwritten.
C11_ResultChannelBounded ==
    /\ Len(results) <= (IF config.C * 1000 < 1000000
                        THEN config.C * 1000 ELSE 1000000)
    /\ ~panicked => totalCount + Len(results) = emitted
    /\ emitted + InFlight + dropped = reqCounter
    /\ \A i \in 1..Len(details) : details[i] = "OK"

\* C11 witness: the buffer is full, a worker's call is waiting to deliver
\* its result, and nothing has been consumed yet
C11_Witness ==
    /\ Len(results) = ResultCap
    /\ \E w \in Workers : wpc[w] = "invoke"
    /\ reqCounter > ResultCap
    /\ totalCount = 0

\* ------------------------------------------------------------ dial failure

\* C12: when the dial fails, Run has returned without a report, and the
\* reporter was never started, no worker was launched, no call was issued,
\* nothing was put on the result channel and the channel was not closed.
C12_DialFailureReturnsEarly ==
    Happened("dialError")
        => /\ runPc = "returned"
           /\ report = <<>>
           /\ ~ccOpen
           /\ repPc = "idle" /\ totalCount = 0 /\ ~doneCh
           /\ \A w \in Workers : wpc[w] = "idle" /\ wi[w] = 0
           /\ reqCounter = 0 /\ ordinals = {} /\ emitted = 0
           /\ ~resultsClosed /\ closeCount = 0
           /\ lifecycle = <<"dialError">>

\* C12 witness: Run has returned on a dial error for a configuration that
\* asked for calls
C12_Witness ==
    /\ lifecycle = <<"dialError">>
    /\ runPc = "returned"
    /\ config.N >= config.C

\* ------------------------------------------------------------ parseConfig

\* a config file has been decoded and no Requester has been started
ConfigInit ==
    /\ cfgFile \in {<<c>> : c \in ConfigFiles}
    /\ parsed = <<>>
    /\ config = [N |-> 0, C |-> 1, QPS |-> 0]
    /\ mtd = [client |-> FALSE, server |-> FALSE]
    /\ inputLen = 1
    /\ tracing = FALSE
    /\ Constructed

\* parseConfig after a successful json.Unmarshal: c.Default(), then
\* c.Validate(); an error returns no Config
ParseConfig ==
    /\ cfgFile # <<>>
    /\ parsed = <<>>
    /\ \E cores \in Cores :
         LET c == Default(cfgFile[1], cores)
             err == Validate(c)
         IN  parsed' = <<[err |-> err,
                          cfg |-> IF err = "" THEN <<c>> ELSE <<>>]>>
    /\ UNCHANGED <<cfgFile, config, mtd, inputLen, tracing, runVars, chanVars,
                   workerVars, repVars, stopVars, stopCh, throttle>>

ConfigNext == ParseConfig

ConfigSpec == ConfigInit /\ [][ConfigNext]_vars

HasSuffix(s, suffix) ==
    /\ Len(s) >= Len(suffix)
    /\ SubSeq(s, Len(s) - Len(suffix) + 1, Len(s)) = suffix

\* a string with nothing but white space in it
Blank(s) == TrimSpace(s) = <<>>

\* C13 as stated: parseConfig returns an error and no Config exactly when
\* proto is empty or lacks the .proto suffix, call is empty, host is empty,
\* one of n, c, q, t, cpus is negative, or data is absent while dataPath is
\* blank; every other configuration is accepted.  (A string of white space
\* only counts as empty.)
C13_RejectsExactlyInvalid ==
    parsed # <<>> =>
        LET f == cfgFile[1]
            invalid ==
                \/ Blank(f.Proto)
                \/ ~HasSuffix(f.Proto, DotProto)
                \/ Blank(f.Call)
                \/ Blank(f.Host)
                \/ f.N < 0 \/ f.C < 0 \/ f.QPS < 0 \/ f.Timeout < 0
                \/ f.CPUs < 0
                \/ (~f.HasData /\ Blank(f.DataPath))
        IN  /\ invalid => (parsed[1].err # "" /\ parsed[1].cfg = <<>>)
            /\ ~invalid => (parsed[1].err = "" /\ parsed[1].cfg # <<>>)

\* what the code does about host: a configuration whose host is empty and
\* which breaks no other rule is accepted
C13_EmptyHostAccepted ==
    /\ parsed # <<>>
    /\ cfgFile[1].Host = <<>>
    /\ parsed[1].err = ""
    /\ parsed[1].cfg # <<>>

\* ------------------------------------------------------- iteration order

\* C14 as stated: with qps > 0 an iteration waits for the tick, then checks
\* the stop channel, then calls; so a worker that was waiting for its tick
\* when Stop() returned does not issue a call after that tick.
C14_TickThenStopCheck ==
    [][\A w \in Workers :
          (/\ config.QPS > 0
           /\ stopPc = "returned"
           /\ wpc[w] = "throttle"
           /\ wpc'[w] # "throttle")
              => reqCounter' = reqCounter]_vars

\* ------------------------------------------------------------- Stop()

\* C15: Stop() is never blocked on its send (each of its C sends finds room
\* in the stop channel), it has sent exactly C sentinels when it returns,
\* every sentinel sent is still buffered or was consumed by a worker of its
\* own (no worker consumes two), a worker that consumed one has exited, and
\* after Stop() has returned a worker at its stop check with calls left
\* finds a sentinel.
C15_StopNeverBlocks ==
    /\ (stopPc = "sending" /\ ~panicked) => ENABLED StopSend
    /\ stopPc = "returned" => stopI = config.C
    /\ stopCh + Cardinality(drained) = stopI
    /\ stopCh <= config.C
    /\ \A w \in drained : wpc[w] = "done"
    /\ \A w \in Workers :
          (stopPc = "returned" /\ wpc[w] = "loop")
              => (stopCh > 0 /\ w \notin drained)

\* C15 witness: Stop() has returned and each of two workers has consumed its
\* own sentinel with calls still left to make
C15_Witness ==
    /\ stopPc = "returned"
    /\ config.C = 2
    /\ drained = {1, 2}
    /\ stopCh = 0
    /\ \A w \in drained : wi[w] < PerWorker(config)

\* ----------------------------------------------------------- ordinals

\* makeRequest invocations so far: those that returned (one i++ each) and
\* those still running
Invocations == SumDist(wi, Workers) + InFlight

\* C16: after k invocations of makeRequest the ordinals handed out are
\* exactly 1..k and the counter stands at k: no ordinal was handed out
\* twice, and each one is greater than all those handed out before it.
C16_OrdinalsUnique ==
    /\ ordinals = 1..Invocations
    /\ reqCounter = Invocations
    /\ Cardinality(ordinals) = Invocations

\* C16 witness: two workers are inside makeRequest at once and hold the
\* ordinals 1 and 2
C16_Witness ==
    /\ InFlight = 2
    /\ Invocations = 2
    /\ ordinals = {1, 2}

\* -------------------------------------------------------- dropped calls

\* C17 as stated: a step that drops a call (template, metadata or payload
\* failure) issues no RPC and emits no CallResult, consumes one ordinal and
\* one iteration of its worker, and leaves the worker at its next iteration;
\* and the report's count is the number of attempted calls less the number
\* of dropped calls.
C17_DroppedCallsOnlyLowerCount ==
    /\ [][dropped' # dropped
            => /\ dropped' = dropped + 1
               /\ emitted' = emitted
               /\ results' = results
               /\ pendingEnd' = pendingEnd
               /\ reqCounter' = reqCounter + 1
               /\ \E w \in Workers :
                     /\ wpc[w] = "throttle"
                     /\ wpc'[w] = "loop"
                     /\ wi'[w] = wi[w] + 1
                     /\ \A v \in Workers \ {w} :
                           wpc'[v] = wpc[v] /\ wi'[v] = wi[v]]_vars
    /\ [](RunSucceeded => report[1].count = reqCounter - dropped)

\* ---------------------------------------------------- bidi send error

\* C18 as stated: a bidi call leaves its send loop only into its receive
\* loop, also when a send has failed, so that the final status is read
\* before makeBidiRequest returns and no stream is left with its end still
\* to come.
C18_ReceiveAfterSendError ==
    /\ [][\A w \in Workers :
             (wpc[w] = "bidiSend" /\ wpc'[w] # "bidiSend")
                 => wpc'[w] = "bidiRecv"]_vars
    /\ [](pendingEnd = 0)

\* ------------------------------------------------------ stream calls

\* unthrottled runs of one call per worker, over every kind of method and
\* message lists of up to MaxMsgs + 1 messages, with the transport
\* operations of each call recorded
StreamInit ==
    /\ cfgFile = <<>>
    /\ parsed = <<>>
    /\ \E c \in 1..MaxC : config = [N |-> c, C |-> c, QPS |-> 0]
    /\ mtd \in [client : BOOLEAN, server : BOOLEAN]
    /\ inputLen \in (IF mtd.client THEN 0..(MaxMsgs + 1) ELSE {1})
    /\ tracing = TRUE
    /\ Constructed

StreamNext ==
    \/ Driver
    \/ \E w \in Workers : Worker(w)
    \/ AsyncEnd
    \/ ReporterConsume
    \/ ReporterDone

StreamSpec == StreamInit /\ [][StreamNext]_vars

\* the call whose operations are in ops[w] has returned
Returned(w) == wpc[w] \in {"loop", "done"}

\* worker w's last call opened a stream of the given kind successfully
Opened(w, kind) == ops[w] # <<>> /\ ops[w][1] = Call(kind, "streamInput", "ok")

\* the operations after the open
Body(w) == Tail(ops[w])

NumOps(t, o) == Cardinality({i \in 1..Len(t) : t[i].op = o})

\* the first n operations of t are the sends of messages 1..n in that
\* order, and none but the last of them failed
SendsInOrder(t, n) ==
    /\ n <= Len(t)
    /\ \A j \in 1..n : t[j].op = "SendMsg" /\ t[j].idx = j
    /\ \A j \in 1..(n - 1) : t[j].res = "ok"

\* the operations of a client stream: sends in list order, of which only the
\* last can have failed, then at most one close-and-receive and nothing else
ClientStreamShape(w) ==
    LET t == Body(w)
        n == NumOps(t, "SendMsg")
    IN  /\ SendsInOrder(t, n)
        /\ n <= inputLen
        /\ Len(t) <= n + 1
        /\ Len(t) = n + 1 => t[n + 1].op = "CloseAndReceive"
        /\ ~Returned(w)
             => (Len(t) = n /\ n = counter[w]
                 /\ (n > 0 => t[n].res = "ok"))

\* C19 as stated: a successfully opened client stream sends its messages in
\* list order and, once the call has returned, has been finished with
\* exactly one close-and-receive: as the last operation, after the k-th send
\* when no send failed, or right after the first send that returned
\* end-of-stream.
C19_OneCloseAndReceive ==
    \A w \in Workers :
        Opened(w, "InvokeRpcClientStream") =>
            LET t == Body(w)
                n == NumOps(t, "SendMsg")
            IN  /\ ClientStreamShape(w)
                /\ Returned(w)
                     => /\ NumOps(t, "CloseAndReceive") = 1
                        /\ (n = 0 \/ t[n].res = "ok") => n = inputLen
                        /\ n > 0 => t[n].res \in {"ok", "EOF"}

\* C19 amended: as above, except that a call whose send failed with an error
\* other than end-of-stream returns right after that send with no
\* close-and-receive at all.
C19_CloseAndReceiveUnlessSendError ==
    \A w \in Workers :
        Opened(w, "InvokeRpcClientStream") =>
            LET t == Body(w)
                n == NumOps(t, "SendMsg")
                failed == n > 0 /\ t[n].res = "err"
            IN  /\ ClientStreamShape(w)
                /\ Returned(w)
                     => /\ NumOps(t, "CloseAndReceive")
                              = (IF failed THEN 0 ELSE 1)
                        /\ (n = 0 \/ t[n].res = "ok") => n = inputLen
                        /\ failed => Len(t) = n

\* C19 witness: a returned client-stream call of two messages whose second
\* send returned end-of-stream and was followed by the close-and-receive
C19_Witness ==
    \E w \in Workers :
        /\ Returned(w)
        /\ inputLen >= 2
        /\ Len(ops[w]) = 4
        /\ ops[w][1] = Call("InvokeRpcClientStream", "streamInput", "ok")
        /\ ops[w][2] = Op("SendMsg", 1, "ok")
        /\ ops[w][3] = Op("SendMsg", 2, "EOF")
        /\ ops[w][4].op = "CloseAndReceive"

\* C20: a successfully opened bidi stream none of whose sends failed does
\* exactly k sends in list order, then exactly one CloseSend, then only
\* receives; every receive but the last delivers a message, and the call
\* returns right after the first receive that reports end-of-stream or an
\* error.
C20_BidiNormalPath ==
    \A w \in Workers :
        LET t == Body(w)
            n == NumOps(t, "SendMsg")
        IN  (/\ Opened(w, "InvokeRpcBidiStream")
             /\ \A j \in 1..Len(t) : t[j].op = "SendMsg" => t[j].res = "ok")
            => /\ SendsInOrder(t, n)
               /\ n <= inputLen
               /\ wpc[w] = "bidiSend" => (Len(t) = n /\ n = counter[w])
               /\ Len(t) > n
                    => /\ n = inputLen
                       /\ t[n + 1] = Op("CloseSend", 0, "ok")
                       /\ \A j \in (n + 2)..Len(t) : t[j].op = "RecvMsg"
                       /\ \A j \in (n + 2)..(Len(t) - 1) : t[j].res = "msg"
               /\ wpc[w] = "bidiRecv"
                    => /\ Len(t) > n
                       /\ \A j \in (n + 2)..Len(t) : t[j].res = "msg"
               /\ Returned(w)
                    => /\ Len(t) >= n + 2
                       /\ t[Len(t)].op = "RecvMsg"
                       /\ t[Len(t)].res \in {"EOF", "err"}

\* C20 witness: a returned bidi call of two messages: two sends, the
\* half-close, a received message and the end of the stream
C20_Witness ==
    \E w \in Workers :
        /\ Returned(w)
        /\ ops[w] = << Call("InvokeRpcBidiStream", "streamInput", "ok"),
                       Op("SendMsg", 1, "ok"),
                       Op("SendMsg", 2, "ok"),
                       Op("CloseSend", 0, "ok"),
                       Op("RecvMsg", 0, "msg"),
                       Op("RecvMsg", 0, "EOF") >>

\* ------------------------------------------------------ server stream

\* C21: a server-streaming call sends its request once, with the open, and
\* then only receives; every receive but the last delivers a message, the
\* call returns right after the first receive that reports end-of-stream or
\* an error, and a call that ended with end-of-stream is recorded as OK.
C21_ServerStreamStopsAtTerminator ==
    \A w \in Workers :
        (ops[w] # <<>> /\ ops[w][1].op = "InvokeRpcServerStream")
        => LET t == Body(w)
           IN  /\ NumOps(ops[w], "InvokeRpcServerStream") = 1
               /\ \A j \in 1..Len(t) : t[j].op = "RecvMsg"
               /\ \A j \in 1..(Len(t) - 1) : t[j].res = "msg"
               /\ ops[w][1].res = "err" => (t = <<>> /\ Returned(w))
               /\ ~Returned(w)
                    => /\ wpc[w] = "ssLoop"
                       /\ \A j \in 1..Len(t) : t[j].res = "msg"
               /\ (Returned(w) /\ ops[w][1].res = "ok")
                    => /\ t # <<>>
                       /\ t[Len(t)].res \in {"EOF", "err"}
               /\ (Returned(w) /\ config.C = 1 /\ ~panicked)
                    => details \o results =
                         << IF t # <<>> /\ t[Len(t)].res = "EOF"
                            THEN "OK" ELSE "Unavailable" >>

\* C21 witness: a returned server-streaming call that received one message
\* and then the end of the stream
C21_Witness ==
    \E w \in Workers :
        /\ Returned(w)
        /\ ops[w] = << Call("InvokeRpcServerStream", "input", "ok"),
                       Op("RecvMsg", 0, "msg"),
                       Op("RecvMsg", 0, "EOF") >>

\* ------------------------------------------------------------ dispatch

\* the operations that belong to each interaction mode
ModeOps(d) ==
    CASE d = "InvokeRpc" -> {}
      [] d = "InvokeRpcClientStream" -> {"SendMsg", "CloseAndReceive"}
      [] d = "InvokeRpcServerStream" -> {"RecvMsg"}
      [] d = "InvokeRpcBidiStream" -> {"SendMsg", "CloseSend", "RecvMsg"}

\* C22: a call that got past template and payload building has made exactly
\* one stub call, the first thing it did: the bidi one when the method is
\* client- and server-streaming, the client-stream one when it is only
\* client-streaming, the server-stream one when it is only server-streaming,
\* the unary one otherwise; the message list goes to the client-stream and
\* bidi modes and the single message to the unary and server-stream modes;
\* everything the call does afterwards belongs to that one mode; and a call
\* that made no stub call was dropped.
C22_DispatchByStreamingKind ==
    \A w \in Workers :
        LET expected ==
                IF mtd.client /\ mtd.server THEN "InvokeRpcBidiStream"
                ELSE IF mtd.client THEN "InvokeRpcClientStream"
                ELSE IF mtd.server THEN "InvokeRpcServerStream"
                ELSE "InvokeRpc"
            payload ==
                IF mtd.client THEN "streamInput" ELSE "input"
        IN  /\ ops[w] # <<>>
                 => /\ ops[w][1].op = expected
                    /\ ops[w][1].arg = payload
                    /\ \A j \in 2..Len(ops[w]) :
                          ops[w][j].op \in ModeOps(expected)
            /\ wpc[w] \in {"csLoop", "ssLoop", "bidiSend", "bidiRecv"}
                 => /\ ops[w] # <<>>
                    /\ wpc[w] = "csLoop" => expected = "InvokeRpcClientStream"
                    /\ wpc[w] = "ssLoop" => expected = "InvokeRpcServerStream"
                    /\ wpc[w] \in {"bidiSend", "bidiRecv"}
                         => expected = "InvokeRpcBidiStream"
            /\ (Returned(w) /\ wi[w] > 0 /\ ops[w] = <<>>) => dropped > 0
            /\ (Returned(w) /\ wi[w] > 0 /\ dropped = 0) => ops[w] # <<>>

\* C22 witness: two workers of a server-streaming method have both made
\* their stub call with the single message, one has returned and the other
\* is receiving
C22_Witness ==
    /\ mtd = [client |-> FALSE, server |-> TRUE]
    /\ config.C = 2
    /\ \A w \in 1..2 : ops[w] # <<>> /\ ops[w][1].arg = "input"
    /\ Returned(1)
    /\ wpc[2] = "ssLoop"

\* ------------------------------------------------------------- pacing

\* C23 as stated: with qps > 0 a worker that waits for its tick eventually
\* gets one, and a run in which Stop() is never called returns, every worker
\* having made its floor(N/C) iterations (unless the process has died of
\* the panic of C8 before).
C23_PacingNeverDeadlocks ==
    /\ \A w \in Workers :
          (config.QPS > 0 /\ wpc[w] = "throttle") ~> (wpc[w] # "throttle")
    /\ config.QPS > 0
          => <>(stopPc # "idle" \/ runPc = "returned" \/ panicked)
    /\ []((RunSucceeded /\ stopPc = "idle")
            => \A w \in Active : wi[w] = PerWorker(config))

\* ------------------------------------------------------------ defaults

\* C24: a Config returned by parseConfig has n = 200 where the file had 0,
\* c = 50 where the file had 0 and cpus = the number of cores where the file
\* had 0, every other field as in the file, and so c >= 1, n >= 0 and
\* cpus >= 1; a file with a negative n, c or cpus gets an error and no
\* Config.
C24_DefaultsBeforeValidation ==
    parsed # <<>> =>
        LET f == cfgFile[1]
            p == parsed[1]
        IN  /\ (f.N < 0 \/ f.C < 0 \/ f.CPUs < 0)
                 => (p.err # "" /\ p.cfg = <<>>)
            /\ p.err = "" <=> p.cfg # <<>>
            /\ p.cfg # <<>>
                 => LET c == p.cfg[1]
                    IN  /\ c.N = (IF f.N = 0 THEN 200 ELSE f.N)
                        /\ c.C = (IF f.C = 0 THEN 50 ELSE f.C)
                        /\ IF f.CPUs = 0 THEN c.CPUs \in Cores
                                         ELSE c.CPUs = f.CPUs
                        /\ c.C >= 1 /\ c.N >= 0 /\ c.CPUs >= 1
                        /\ [c EXCEPT !.N = f.N, !.C = f.C, !.CPUs = f.CPUs]
                             = f

\* C24 witness: a file that leaves n, c and cpus at 0 is accepted with
\* n = 200, c = 50 and cpus = 2
C24_Witness ==
    /\ parsed # <<>>
    /\ cfgFile[1].N = 0 /\ cfgFile[1].C = 0 /\ cfgFile[1].CPUs = 0
    /\ parsed[1].cfg # <<>>
    /\ parsed[1].cfg[1].N = 200
    /\ parsed[1].cfg[1].C = 50
    /\ parsed[1].cfg[1].CPUs = 2

====
